---- MODULE Spec2Model ----
(***************************************************************************)
(* Model of laser_vectorizer: the skeleton-to-vector pipeline              *)
(* (vectorizer.py), the batch driver (cli.py) and the configuration        *)
(* (config.py).                                                            *)
(*                                                                         *)
(* Coordinates.  A path point is <<x, y>>.  The code stores float32        *)
(* coordinates; the model stores the exact rational value v as the integer *)
(* v * Denom, where Denom is a common multiple of every window length a    *)
(* moving average can divide by.  The float32 rounding of np.mean is not   *)
(* modelled: the means are exact.                                          *)
(***************************************************************************)
EXTENDS Integers, Sequences, FiniteSets, TLC

VARIABLES
    pc,           \* position of the modelled call or of ConsoleApp.run
    pts,          \* _smooth_path called on its own: the argument pts
    kernel_size,  \* _smooth_path called on its own: the argument kernel_size
    smoothed,     \* _smooth_path called on its own: the returned array
    cfg,          \* the VectorizerConfig instance (self.cfg, self.config)
    skeleton,     \* the raster handed to the VectorConverter
    paths,        \* the list _find_paths returned
    sources,      \* _find_paths called on its own: for each returned path, the
                  \* index idx of the contour it was appended for
    document,     \* the SVG document save_to_svg wrote
    returned,     \* the value process_and_save returned
    pruned,       \* the raster _prune_skeleton returned
    dir,          \* ConsoleApp.run: the image files of input_dir
    fate,         \* ConsoleApp.run: for each file, the step that raises, or "ok"
    files,        \* ConsoleApp.run: the list `files`
    results,      \* ConsoleApp.run: the list `results`
    written,      \* ConsoleApp.run: the SVG files written, by output path
    table         \* print_summary: the rows of the printed table

vars == <<pc, pts, kernel_size, smoothed, cfg, skeleton, paths, sources, document,
          returned, pruned, dir, fate, files, results, written, table>>

-----------------------------------------------------------------------------
(* Bounds of the model *)

\* longest path handed to _smooth_path on its own
MaxLen == 8
\* largest smoothing window handed to _smooth_path on its own
MaxWindow == 5
\* number of shapes drawn side by side in a raster handed to _find_paths
MaxShapes == 2
\* largest PRUNE_LENGTH and SCALE_FACTOR of a configuration handed to _prune_skeleton
MaxPrune == 8
MaxScale == 2
\* number of image files in the input directory of ConsoleApp.run
MaxFiles == 3

-----------------------------------------------------------------------------
(* Arithmetic helpers *)

Min(a, b) == IF a < b THEN a ELSE b
Max(a, b) == IF a > b THEN a ELSE b
Abs(a) == IF a < 0 THEN -a ELSE a

RECURSIVE Gcd(_, _)
Gcd(a, b) == IF b = 0 THEN a ELSE Gcd(b, a % b)

RECURSIVE LcmUpTo(_)
LcmUpTo(n) == IF n <= 1 THEN 1 ELSE LET l == LcmUpTo(n - 1) IN (l * n) \div Gcd(l, n)

\* A window of _smooth_path holds at most kernel_size + 1 points (an even
\* kernel_size k averages 2 * (k \div 2) + 1 = k + 1 points).
Denom == LcmUpTo(MaxWindow + 2)

\* An integer pixel coordinate as a stored coordinate (astype(np.float32)).
ToFloat(p) == <<p[1] * Denom, p[2] * Denom>>

-----------------------------------------------------------------------------
(* Rasters.  A raster is [h, w, fg]: its shape and the set of its nonzero  *)
(* pixels <<x, y>> (x the column, y the row), as cv2 reports contour       *)
(* points.                                                                 *)

\* The 8 neighbour offsets in clockwise order as displayed (y grows downwards):
\* E, SE, S, SW, W, NW, N, NE, numbered 0..7.
Dir(d) ==
    CASE d = 0 -> <<1, 0>>
      [] d = 1 -> <<1, 1>>
      [] d = 2 -> <<0, 1>>
      [] d = 3 -> <<-1, 1>>
      [] d = 4 -> <<-1, 0>>
      [] d = 5 -> <<-1, -1>>
      [] d = 6 -> <<0, -1>>
      [] d = 7 -> <<1, -1>>

Nbr(p, d) == <<p[1] + Dir(d % 8)[1], p[2] + Dir(d % 8)[2]>>

\* The direction d with Nbr(p, d) = q, for 8-adjacent p and q.
DirTo(p, q) == CHOOSE d \in 0..7 : Nbr(p, d) = q

\* The label of pixel p in the labelled image f (0 outside the foreground).
Label(f, p) == IF p \in DOMAIN f THEN f[p] ELSE 0

\* Raster scan order: row by row, left to right.
ScanBefore(p, q) == p[2] < q[2] \/ (p[2] = q[2] /\ p[1] < q[1])

ScanFirst(S) == CHOOSE p \in S : \A q \in S \ {p} : ScanBefore(p, q)

-----------------------------------------------------------------------------
(* cv2.findContours(skel_norm, RETR_TREE, CHAIN_APPROX_NONE): border       *)
(* following (Suzuki and Abe), every border pixel reported.  The hierarchy *)
(* is not modelled: _find_paths never reads it.                            *)

\* The first direction among d0, d0 + 1, ..., d0 + 7 (clockwise) whose
\* neighbour of p is nonzero, or -1.
RECURSIVE FirstClockwise(_, _, _, _)
FirstClockwise(f, p, d0, n) ==
    IF n = 8 THEN -1
    ELSE IF Label(f, Nbr(p, d0 + n)) # 0 THEN (d0 + n) % 8
    ELSE FirstClockwise(f, p, d0, n + 1)

\* The number of steps n >= 1 such that d0 - n (counterclockwise from d0) is
\* the first direction whose neighbour of p is nonzero.
RECURSIVE StepsCounter(_, _, _, _)
StepsCounter(f, p, d0, n) ==
    IF n >= 8 \/ Label(f, Nbr(p, d0 + 8 - n)) # 0 THEN n
    ELSE StepsCounter(f, p, d0, n + 1)

\* One step of following a border: `start` is the pixel the scan found, p1
\* the pixel the border ends on, st.p2 and st.p3 the previous and the current
\* pixel.  The current pixel is labelled and reported, and the border is done
\* when it is back at its start, about to repeat its first step.
FollowStep(nbd, start, p1, st) ==
    LET f      == st.f
        d2     == DirTo(st.p3, st.p2)
        n      == StepsCounter(f, st.p3, d2, 1)
        p4     == Nbr(st.p3, d2 + 8 - n)
        \* the east neighbour was examined and found zero
        east   == \E m \in 1..(n - 1) : (d2 + 8 - m) % 8 = 0
        marked == IF east THEN [f EXCEPT ![st.p3] = -nbd]
                  ELSE IF f[st.p3] = 1 THEN [f EXCEPT ![st.p3] = nbd]
                  ELSE f
    IN  [f |-> marked, points |-> Append(st.points, st.p3),
         p2 |-> st.p3, p3 |-> p4, done |-> (p4 = start /\ st.p3 = p1)]

\* At most n steps of the loop.
RECURSIVE FollowSteps(_, _, _, _, _)
FollowSteps(nbd, start, p1, st, n) ==
    IF n = 0 \/ st.done THEN st
    ELSE FollowSteps(nbd, start, p1, FollowStep(nbd, start, p1, st), n - 1)

\* The loop, run 16 steps at a time (which keeps the evaluation shallow on a
\* long border).
RECURSIVE Follow(_, _, _, _)
Follow(nbd, start, p1, st) ==
    IF st.done THEN st
    ELSE Follow(nbd, start, p1, FollowSteps(nbd, start, p1, st, 16))

\* The border that starts at pixel p, the scan having come from direction
\* d0 (4, the west, for an outer border; 0, the east, for a hole border).
TraceBorder(f, nbd, p, d0) ==
    LET d1 == FirstClockwise(f, p, d0, 0)
    IN  IF d1 = -1
        THEN [f |-> [f EXCEPT ![p] = -nbd], points |-> <<p>>]
        ELSE Follow(nbd, p, Nbr(p, d1),
                    [f |-> f, points |-> <<>>, p2 |-> Nbr(p, d1), p3 |-> p,
                     done |-> FALSE])

\* A pixel at which the raster scan starts a border: an outer border at a
\* pixel labelled 1 whose west neighbour is zero, otherwise a hole border at
\* a pixel labelled >= 1 whose east neighbour is zero.
StartsOuter(f, p) == f[p] = 1 /\ Label(f, Nbr(p, 4)) = 0
StartsHole(f, p) == ~StartsOuter(f, p) /\ f[p] >= 1 /\ Label(f, Nbr(p, 0)) = 0

\* The raster scan, from the pixel after `last` on (from the first pixel when
\* last is <<-1, -1>>): the scan stops at the next pixel that starts a
\* border, follows the border and goes on from there.
RECURSIVE ScanContours(_, _, _, _)

\* The scan goes on after the border t that started at pixel p.
ScanOn(t, nbd, p, found) == ScanContours(t.f, nbd, p, Append(found, t.points))

\* The scan has stopped at pixel p: its border is followed.
ScanAt(f, nbd, p, found) ==
    ScanOn(TraceBorder(f, nbd, p, IF StartsOuter(f, p) THEN 4 ELSE 0), nbd, p, found)

\* The pixels after `last` at which a border starts.
BorderStarts(f, last) ==
    {p \in DOMAIN f : /\ ScanBefore(last, p)
                      /\ StartsOuter(f, p) \/ StartsHole(f, p)}

\* The scan from the set `ahead` of border starts still to come.
ScanNext(f, nbd, ahead, found) ==
    IF ahead = {} THEN found ELSE ScanAt(f, nbd + 1, ScanFirst(ahead), found)

ScanContours(f, nbd, last, found) == ScanNext(f, nbd, BorderStarts(f, last), found)

\* skel_norm[skel_norm > 0] = 255 makes every nonzero pixel foreground; the
\* contours come in the order the scan finds them.
findContours(skel) == ScanContours([p \in skel.fg |-> 1], 1, <<-1, -1>>, <<>>)

-----------------------------------------------------------------------------
(* cv2.contourArea and cv2.arcLength *)

\* The cyclic successor of the 1-based index i in a sequence of n elements.
Succ(i, n) == IF i = n THEN 1 ELSE i + 1

\* The sum of the cross products P[i] x P[i+1] over i in lo..hi (cyclic).
RECURSIVE Shoelace(_, _, _)
Shoelace(P, lo, hi) ==
    IF lo > hi THEN 0
    ELSE IF lo = hi
    THEN LET q == P[Succ(lo, Len(P))] IN P[lo][1] * q[2] - q[1] * P[lo][2]
    ELSE LET mid == (lo + hi) \div 2
         IN  Shoelace(P, lo, mid) + Shoelace(P, mid + 1, hi)

\* Twice cv2.contourArea(P) (Green's formula, absolute value), in the square
\* of the unit the coordinates of P are in.
Area2(P) == Abs(Shoelace(P, 1, Len(P)))

\* cv2.arcLength(cnt, True) of a CHAIN_APPROX_NONE contour: every step joins
\* two 8-adjacent pixels, so the length is a + b * sqrt(2), kept exactly as
\* [a, b]: a the number of straight steps, b the number of diagonal steps.
arcLength(cnt) ==
    LET n     == Len(cnt)
        steps == IF n < 2 THEN {} ELSE 1..n
        diag(i) == /\ cnt[i][1] # cnt[Succ(i, n)][1]
                   /\ cnt[i][2] # cnt[Succ(i, n)][2]
    IN  [a |-> Cardinality({i \in steps : ~diag(i)}),
         b |-> Cardinality({i \in steps : diag(i)})]

\* a + b * sqrt(2) < c and a + b * sqrt(2) <= c, for an integer c
PerimLess(P, c) == c - P.a > 0 /\ 2 * P.b * P.b < (c - P.a) * (c - P.a)
PerimLeq(P, c) == c - P.a >= 0 /\ 2 * P.b * P.b <= (c - P.a) * (c - P.a)

-----------------------------------------------------------------------------
(* cv2.approxPolyDP(cnt, epsilon, closed=True): OpenCV's Douglas-Peucker   *)
(* for a closed curve.  src is the contour, indices are 0-based as in      *)
(* OpenCV, eps2 = [num, den] is epsilon squared as a fraction.             *)

At(src, i) == src[(i % Len(src)) + 1]

Dist2(p, q) == (p[1] - q[1]) * (p[1] - q[1]) + (p[2] - q[2]) * (p[2] - q[2])

\* The inner loop of one of the init_iters = 3 passes that look for two
\* far-apart points: the offset j in 1..count-1 of the first point farthest
\* from src[s] (the start it had when every point coincides with src[s]), and
\* that squared distance.
RECURSIVE Farthest(_, _, _, _, _)
Farthest(src, s, j, best, bestDist) ==
    IF j >= Len(src) THEN [pos |-> s, start |-> best, dist |-> bestDist]
    ELSE LET d == Dist2(At(src, s + j), At(src, s))
         IN  IF d > bestDist THEN Farthest(src, s, j + 1, j, d)
             ELSE Farthest(src, s, j + 1, best, bestDist)

\* The point of the open slice (from, to) farthest from the chord
\* src[from] -> src[to]: its index and its distance times the chord's length.
RECURSIVE FarFromChord(_, _, _, _, _, _)
FarFromChord(src, from, to, pos, best, bestDist) ==
    IF pos = to THEN [split |-> best, dist |-> bestDist]
    ELSE LET sp == At(src, from)
             ep == At(src, to)
             pt == At(src, pos)
             d  == Abs((pt[2] - sp[2]) * (ep[1] - sp[1]) - (pt[1] - sp[1]) * (ep[2] - sp[2]))
             nx == (pos + 1) % Len(src)
         IN  IF d > bestDist THEN FarFromChord(src, from, to, nx, pos, d)
             ELSE FarFromChord(src, from, to, nx, best, bestDist)

\* The stack of slices <<start, end>> (its top is its last element) and the
\* points written so far.
RECURSIVE ApproxSlices(_, _, _, _)
ApproxSlices(src, eps2, stack, dst) ==
    IF stack = <<>> THEN dst
    ELSE LET slice == stack[Len(stack)]
             rest  == SubSeq(stack, 1, Len(stack) - 1)
             pos   == (slice[1] + 1) % Len(src)
             far   == FarFromChord(src, slice[1], slice[2], pos, slice[1], 0)
             le_eps == \/ pos = slice[2]
                       \/ far.dist * far.dist * eps2.den
                            <= eps2.num * Dist2(At(src, slice[1]), At(src, slice[2]))
         IN  IF le_eps
             THEN ApproxSlices(src, eps2, rest, Append(dst, At(src, slice[1])))
             ELSE ApproxSlices(src, eps2,
                               rest \o << <<far.split, slice[2]>>, <<slice[1], far.split>> >>,
                               dst)

\* The last stage: points on [almost] straight lines are removed, in place.
RECURSIVE ApproxCleanup(_, _, _, _, _, _, _, _, _)
ApproxCleanup(eps2, count, i, pos, wpos, start_pt, pt, dst, new_count) ==
    IF ~(i < count /\ new_count > 2) THEN SubSeq(dst, 1, new_count)
    ELSE LET end_pt == dst[pos + 1]
             pos1   == (pos + 1) % count
             dx     == end_pt[1] - start_pt[1]
             dy     == end_pt[2] - start_pt[2]
             dist   == Abs((pt[1] - start_pt[1]) * dy - (pt[2] - start_pt[2]) * dx)
             inner  == (pt[1] - start_pt[1]) * (end_pt[1] - pt[1])
                         + (pt[2] - start_pt[2]) * (end_pt[2] - pt[2])
             drop   == /\ 2 * dist * dist * eps2.den <= eps2.num * (dx * dx + dy * dy)
                       /\ dx # 0
                       /\ dy # 0
                       /\ inner >= 0
         IN  IF drop
             THEN ApproxCleanup(eps2, count, i + 2, (pos1 + 1) % count, (wpos + 1) % count,
                                end_pt, dst[pos1 + 1],
                                [dst EXCEPT ![wpos + 1] = end_pt], new_count - 1)
             ELSE ApproxCleanup(eps2, count, i + 1, pos1, (wpos + 1) % count,
                                pt, end_pt,
                                [dst EXCEPT ![wpos + 1] = pt], new_count)

\* One pass: pos = (pos + right_slice.start) % count, then the inner loop.
InitPass(src, prev) ==
    Farthest(src, (prev.pos + prev.start) % Len(src), 1, prev.start, 0)

\* The cleanup of the points dst the slices wrote.
ApproxCleaned(eps2, dst) ==
    IF Len(dst) = 1 THEN dst
    ELSE ApproxCleanup(eps2, Len(dst), 0, 1, 0, dst[Len(dst)], dst[1], dst, Len(dst))

\* After the passes (it is the last one): one point when no point is
\* farther than epsilon from src[pos], otherwise the two slices between
\* src[pos] and the point farthest from it.
ApproxFrom(src, eps2, it) ==
    IF it.dist * eps2.den <= eps2.num THEN <<At(src, it.pos)>>
    ELSE LET far == (it.start + it.pos) % Len(src)
         IN  ApproxCleaned(eps2, ApproxSlices(src, eps2,
                                              << <<far, it.pos>>, <<it.pos, far>> >>, <<>>))

approxPolyDP(src, eps2) ==
    IF Len(src) = 0 THEN <<>>
    ELSE ApproxFrom(src, eps2,
                    InitPass(src, InitPass(src, InitPass(src,
                        [pos |-> 0, start |-> Len(src), dist |-> 0]))))

-----------------------------------------------------------------------------
(* VectorConverter._smooth_path *)

RECURSIVE SumX(_, _, _)
SumX(P, a, b) == IF a > b THEN 0 ELSE P[a][1] + SumX(P, a + 1, b)

RECURSIVE SumY(_, _, _)
SumY(P, a, b) == IF a > b THEN 0 ELSE P[a][2] + SumY(P, a + 1, b)

\* np.mean(pts[start:end], axis=0) over the 1-based inclusive range a..b
MeanOf(P, a, b) ==
    <<SumX(P, a, b) \div (b - a + 1), SumY(P, a, b) \div (b - a + 1)>>

\* kernel_size = min(kernel_size, len(pts) // 2) if len(pts) > 2 else 1
ClampKernel(n, w) == IF n > 2 THEN Min(w, n \div 2) ELSE 1

\* The window of the 0-based index i0: pts[start:end], as the 1-based
\* inclusive range start + 1 .. end.
WindowStart(i0, k) == Max(0, i0 - (k \div 2))

\* Faulty variant: the window misses its right neighbour (end = i + k // 2).
WindowEndShort(n, i0, k) == Min(n, i0 + (k \div 2))

WindowEnd(n, i0, k) == Min(n, i0 + (k \div 2) + 1)

_smooth_path(P, w) ==
    LET n == Len(P)
        k == ClampKernel(n, w)
    IN  IF n < w THEN P
        ELSE IF k = 1 THEN P
        ELSE [i \in 1..n |->
                 MeanOf(P, WindowStart(i - 1, k) + 1, WindowEnd(n, i - 1, k))]

-----------------------------------------------------------------------------
(* config.VectorizerConfig: the dataclass and its defaults.                *)
(* SIMPLIFICATION_EPSILON is kept in tenths (0.8 is 8).  The dataclass has *)
(* no __post_init__: any value of a field is accepted.                     *)

VectorizerConfig ==
    [SCALE_FACTOR |-> 5, PRUNE_LENGTH |-> 18, SIMPLIFICATION_EPSILON |-> 8,
     SMOOTHING_WINDOW |-> 5, STROKE_WIDTH |-> "0.1mm", STROKE_COLOR |-> "red",
     OUTPUT_SUFFIX |-> "_laser_ready"]

-----------------------------------------------------------------------------
(* VectorConverter._find_paths *)

\* if area < 50: the minimum area
MinArea == 50
\* if perimeter < 20: the minimum perimeter
MinPerimeter == 20

\* The largest r with r * r <= n.
Isqrt(n) == CHOOSE r \in 0..n : r * r <= n /\ (r + 1) * (r + 1) > n

\* epsilon = SIMPLIFICATION_EPSILON * max(1, perimeter / 100), squared, as
\* a fraction.  Up to a perimeter of 100 the factor is 1 and the value is
\* exact; above, the perimeter a + b * sqrt(2) is rounded down to an integer
\* (the rasters of the model have no contour that long).
Epsilon2(c, perimeter) ==
    LET e == c.SIMPLIFICATION_EPSILON
    IN  IF PerimLeq(perimeter, 100) THEN [num |-> e * e, den |-> 100]
        ELSE LET fl == perimeter.a + Isqrt(2 * perimeter.b * perimeter.b)
             IN  [num |-> e * e * fl * fl, den |-> 100 * 100 * 100]

\* Faulty variant: the minimum area is not checked.
IsNoisePerimeterOnly(cnt) == PerimLess(arcLength(cnt), MinPerimeter)

\* A contour the loop skips: area < 50, or perimeter < 20.
IsNoise(cnt) ==
    \/ Area2(cnt) < 2 * MinArea
    \/ PerimLess(arcLength(cnt), MinPerimeter)

\* Faulty variant: a simplified contour of any length is kept.
KeepsPathAny(approx) == Len(approx) >= 1

\* if len(pts) >= 3
KeepsPath(approx) == Len(approx) >= 3

\* approx.reshape(-1, 2).astype(np.float32)
AsFloat32(approx) == [i \in 1..Len(approx) |-> ToFloat(approx[i])]

\* self._smooth_path(pts): the call passes no kernel_size, so the default of
\* the parameter, 3, is the window.
SmoothDefault(c, P) == _smooth_path(P, 3)

\* The loop over the contours: the paths appended so far, each with the
\* index of the contour it comes from (src, which the code does not keep).
\* The end of the loop body: the simplified contour approx is smoothed and
\* appended when it has 3 points or more.
AppendPath(c, idx, approx) ==
    IF KeepsPath(approx)
    THEN <<[src |-> idx, path |-> SmoothDefault(c, AsFloat32(approx))]>>
    ELSE <<>>

\* The loop body for the contour cnt, of index idx: what it appends.
TraceContour(c, idx, cnt) ==
    IF IsNoise(cnt) THEN <<>>
    ELSE AppendPath(c, idx, approxPolyDP(cnt, Epsilon2(c, arcLength(cnt))))

RECURSIVE TracePaths(_, _, _, _)
TracePaths(contours, c, idx, acc) ==
    IF idx > Len(contours) THEN acc
    ELSE TracePaths(contours, c, idx + 1, acc \o TraceContour(c, idx, contours[idx]))

\* The sort key: cv2.contourArea(p.reshape(-1, 1, 2)), the area of the path
\* itself (twice the area, in squared stored units).
SortKey(entry) == Area2(entry.path)

\* list.sort(key, reverse=True): descending, and stable (entries of equal
\* key keep their order).
RECURSIVE InsertDescending(_, _)
InsertDescending(sorted, e) ==
    IF sorted = <<>> THEN <<e>>
    ELSE IF SortKey(sorted[Len(sorted)]) >= SortKey(e) THEN Append(sorted, e)
    ELSE Append(InsertDescending(SubSeq(sorted, 1, Len(sorted) - 1), e),
                sorted[Len(sorted)])

RECURSIVE SortFrom(_, _, _)
SortFrom(entries, i, sorted) ==
    IF i > Len(entries) THEN sorted
    ELSE SortFrom(entries, i + 1, InsertDescending(sorted, entries[i]))

\* Faulty variant: the paths are left in the order the contours were traced in.
SortPathsNot(entries) == entries

SortPaths(entries) == SortFrom(entries, 1, <<>>)

\* The sorted entries of _find_paths(skeleton).  `if not contours: return []`
\* is the empty case of the loop.
FoundEntries(skel, c) == SortPaths(TracePaths(findContours(skel), c, 1, <<>>))

\* The paths of the entries (what _find_paths returns), and the contour
\* indices of the entries.
EntryPaths(found) == [i \in 1..Len(found) |-> found[i].path]
EntrySources(found) == [i \in 1..Len(found) |-> found[i].src]

_find_paths(skel, c) == EntryPaths(FoundEntries(skel, c))

-----------------------------------------------------------------------------
(* VectorConverter.save_to_svg and process_and_save *)

Digit(n) == <<"0", "1", "2", "3", "4", "5", "6", "7", "8", "9">>[n + 1]

\* str(n), n >= 0
RECURSIVE IntToStr(_)
IntToStr(n) == IF n < 10 THEN Digit(n) ELSE IntToStr(n \div 10) \o Digit(n % 10)

\* f"{x:.1f}" of the stored coordinate v >= 0: rounded to the nearest tenth,
\* an exact tie to the even tenth.  (The coordinates _find_paths returns are
\* means of 1, 2 or 3 integers, for which no tie arises.)
Format1f(v) ==
    LET q == (10 * v) \div Denom
        r == (10 * v) % Denom
        t == IF 2 * r > Denom THEN q + 1
             ELSE IF 2 * r < Denom THEN q
             ELSE IF q % 2 = 0 THEN q ELSE q + 1
    IN  IntToStr(t \div 10) \o "." \o Digit(t % 10)

\* " ".join(path_data): "M x,y", then "L x,y" for every further point, then "Z"
RECURSIVE LineTos(_, _)
LineTos(P, i) ==
    IF i > Len(P) THEN ""
    ELSE " L " \o Format1f(P[i][1]) \o "," \o Format1f(P[i][2]) \o LineTos(P, i + 1)

PathData(P) ==
    "M " \o Format1f(P[1][1]) \o "," \o Format1f(P[1][2]) \o LineTos(P, 2) \o " Z"

\* The loop of save_to_svg: a path of fewer than 2 points is skipped, every
\* other path adds one path element to the group.
RECURSIVE GroupElements(_, _)
GroupElements(ps, i) ==
    IF i > Len(ps) THEN <<>>
    ELSE IF Len(ps[i]) < 2 THEN GroupElements(ps, i + 1)
    ELSE <<PathData(ps[i])>> \o GroupElements(ps, i + 1)

\* The document dwg.save() writes.
save_to_svg(ps, c, img_size) ==
    [size |-> <<img_size[2], img_size[1]>>,
     stroke |-> c.STROKE_COLOR,
     stroke_width |-> c.STROKE_WIDTH,
     fill |-> "none",
     elements |-> GroupElements(ps, 1)]

\* process_and_save(skeleton, output_path): the paths, the document written
\* to output_path, and the returned len(paths).
SavePaths(ps, c, img_size) ==
    [paths |-> ps, document |-> save_to_svg(ps, c, img_size), returned |-> Len(ps)]

process_and_save(skel, c) == SavePaths(_find_paths(skel, c), c, <<skel.h, skel.w>>)

-----------------------------------------------------------------------------
(* VectorConverter._prune_skeleton.  tests.py calls it, vectorizer.py does  *)
(* not define it: it is modelled from section 4.1 of the specification.    *)

\* The number of 8-connected foreground neighbours of p.
Neighbours(fg, p) == Cardinality({d \in 0..7 : Nbr(p, d) \in fg})

\* Faulty variant: a pixel with at most two neighbours is a tip.
IsTipUpToTwo(fg, p) == Neighbours(fg, p) \in {1, 2}

\* A tip: a foreground pixel with exactly one foreground neighbour.
IsTip(fg, p) == Neighbours(fg, p) = 1

\* One iteration: all tips are cleared simultaneously.
PruneOnce(fg) == {p \in fg : ~IsTip(fg, p)}

RECURSIVE PruneTimes(_, _)
PruneTimes(fg, iterations) ==
    IF iterations <= 0 THEN fg ELSE PruneTimes(PruneOnce(fg), iterations - 1)

\* iterations = prune_length * scale_factor
_prune_skeleton(skel, c) ==
    [skel EXCEPT !.fg = PruneTimes(skel.fg, c.PRUNE_LENGTH * c.SCALE_FACTOR)]

-----------------------------------------------------------------------------
(* cli.ConsoleApp *)

\* The files of input_dir are numbered in the order of their names.
FileName(i) == "img" \o IntToStr(i) \o ".png"
FileStem(i) == "img" \o IntToStr(i)

\* output_path / (file.stem + self.config.OUTPUT_SUFFIX + ".svg"), with the
\* default --out
OutFile(c, i) == "output/" \o FileStem(i) \o c.OUTPUT_SUFFIX \o ".svg"

\* sorted(list(set(files))): the files in ascending order, each once
RECURSIVE Sorted(_)
Sorted(S) ==
    IF S = {} THEN <<>>
    ELSE LET m == CHOOSE x \in S : \A y \in S : x <= y
         IN  <<m>> \o Sorted(S \ {m})

\* ImageProcessor.preprocess reads self.cfg.BILATERAL_SIGMA (and CLAHE_CLIP,
\* ADAPTIVE_BLOCK_SIZE, ...): fields the dataclass of config.py does not
\* declare, so that the read raises AttributeError unless the configuration
\* object was given them.
HasPreprocessSettings(c) == "BILATERAL_SIGMA" \in DOMAIN c

\* str(e) of the exception each step raises (the Cyrillic texts in English).
ErrorText(step, i) ==
    CASE step = "load" -> "File not found: input/" \o FileName(i)
      [] step = "settings" -> "'VectorizerConfig' object has no attribute 'BILATERAL_SIGMA'"
      [] step = "preprocess" -> "OpenCV error in preprocess"
      [] step = "skeletonize" -> "No module cv2.ximgproc"
      [] step = "save" -> "Permission denied"

\* The step of the try block that raises for file i, or "ok".
FailingStep(c, i) ==
    IF fate[i] = "load" THEN "load"
    ELSE IF ~HasPreprocessSettings(c) THEN "settings"
    ELSE fate[i]

\* The try block runs to its end for file i: nodes_count is what
\* process_and_save returned, status is "OK", and the SVG file is written.
Completed(c, i, saved) ==
    [row |-> <<FileName(i), "0.00s", IntToStr(saved.returned), "OK">>,
     written |-> (OutFile(c, i) :> saved.document)]

\* A step of the try block raises: the handler sets status, nodes_count keeps
\* its initial 0, and no file is written.
Caught(i, step) ==
    [row |-> <<FileName(i), "0.00s", "0", "ERROR: " \o ErrorText(step, i)>>,
     written |-> <<>>]

\* The body of the loop for file i, whose skeleton is skel, with the
\* exception handler: the row appended to results and the file written.
TryFile(c, i, step, skel) ==
    IF step = "ok" THEN Completed(c, i, process_and_save(skel, c))
    ELSE Caught(i, step)

\* "OK" in status
ContainsOK(status) == \E k \in 1..(Len(status) - 1) : SubSeq(status, k, k + 1) = "OK"

\* print_summary: one table row per result row
SummaryRow(row) ==
    LET status_style == IF ContainsOK(row[4]) THEN "green" ELSE "red"
        short_status == IF Len(row[4]) < 20 THEN row[4] ELSE "ERROR"
    IN  <<row[1], row[2], row[3],
          "[" \o status_style \o "]" \o short_status \o "[/" \o status_style \o "]">>

-----------------------------------------------------------------------------
(* The rasters of the model *)

Shift(S, dx, dy) == {<<p[1] + dx, p[2] + dy>> : p \in S}

\* The pixels of a shape, its bounding box at the origin.
ShapePixels(kind) ==
    CASE kind = "none"    -> {}
      [] kind = "square8" -> (0..8) \X (0..8)
      [] kind = "square7" -> (0..7) \X (0..7)
      [] kind = "rect"    -> (0..10) \X (0..5)
      [] kind = "tri10"   -> {p \in (0..10) \X (0..10) : p[1] <= p[2]}
      [] kind = "ell"     -> {p \in (0..10) \X (0..10) : p[1] <= 4 \/ p[2] >= 6}
      [] kind = "ring9"   -> {p \in (0..9) \X (0..9) : p[1] \in {0, 9} \/ p[2] \in {0, 9}}
      [] kind = "diag"    -> {<<k, k>> : k \in 0..9}
      [] kind = "hline"   -> {<<k, 0>> : k \in 0..5}

ShapeKinds ==
    {"none", "square8", "square7", "rect", "tri10", "ell", "ring9", "diag", "hline"}

\* The shapes of a sequence of kinds side by side, one every 14 columns, in
\* a raster 14 rows high.
Scene(kinds) ==
    [h |-> 14, w |-> 14 * Len(kinds),
     fg |-> UNION {Shift(ShapePixels(kinds[k]), 1 + 14 * (k - 1), 1) : k \in 1..Len(kinds)}]

\* tests.py, test_vector_output: np.zeros((100, 100)) with
\* cv2.line(skel, (10, 10), (90, 90), 255, 1)
TestVectorOutputSkeleton == [h |-> 100, w |-> 100, fg |-> {<<k, k>> : k \in 10..90}]

\* tests.py, test_pruning: np.zeros((50, 50)) with a horizontal line from
\* (10, 25) to (10 + len, 25) (len = 30 in the test) and a line from its
\* midpoint `spur` pixels upwards (spur = 5 in the test).
PruningSkeleton(len, spur) ==
    [h |-> 50, w |-> 50,
     fg |-> {<<x, 25>> : x \in 10..(10 + len)}
              \cup {<<10 + (len \div 2), y>> : y \in (25 - spur)..25}]

\* The skeleton that load_image, preprocess and skeletonize make of file i.
FileSkeleton(i) ==
    CASE i % 3 = 1 -> Scene(<<"square8">>)
      [] i % 3 = 2 -> Scene(<<"none">>)
      [] i % 3 = 0 -> Scene(<<"tri10", "ell">>)

NoRaster == [h |-> 0, w |-> 0, fg |-> {}]
NoDocument == [size |-> <<0, 0>>, stroke |-> "", stroke_width |-> "", fill |-> "",
               elements |-> <<>>]

\* The values of the variables a specification does not use.
SmoothUnused == pts = <<>> /\ kernel_size = 0 /\ smoothed = <<>>
ConverterUnused ==
    /\ skeleton = NoRaster
    /\ paths = <<>>
    /\ sources = <<>>
    /\ document = NoDocument
    /\ returned = 0
    /\ pruned = NoRaster
AppUnused ==
    /\ dir = {}
    /\ fate = <<>>
    /\ files = <<>>
    /\ results = <<>>
    /\ written = <<>>
    /\ table = <<>>

-----------------------------------------------------------------------------
(* Specification of _smooth_path called on its own *)

\* The points a path is made of (integer pixel coordinates).
SmoothPoints == {<<0, 0>>, <<3, 0>>, <<1, 2>>}

RECURSIVE SeqsUpTo(_, _)
SeqsUpTo(S, n) ==
    IF n = 0 THEN {<<>>}
    ELSE LET shorter == SeqsUpTo(S, n - 1)
         IN  shorter \cup {Append(t, e) : t \in {u \in shorter : Len(u) = n - 1}, e \in S}

InitSmooth ==
    /\ pc = "smooth"
    /\ pts \in {AsFloat32(t) : t \in SeqsUpTo(SmoothPoints, MaxLen)}
    /\ kernel_size \in 1..MaxWindow
    /\ smoothed = <<>>
    /\ cfg = VectorizerConfig
    /\ ConverterUnused
    /\ AppUnused

SmoothPath ==
    /\ pc = "smooth"
    /\ smoothed' = _smooth_path(pts, kernel_size)
    /\ pc' = "smoothed"
    /\ UNCHANGED <<pts, kernel_size, cfg, skeleton, paths, sources,
                   document, returned,
                   pruned, dir, fate, files, results, written, table>>

NextSmooth == SmoothPath

SpecSmooth == InitSmooth /\ [][NextSmooth]_vars

-----------------------------------------------------------------------------
(* Specification of the VectorConverter: _find_paths called on its own (as *)
(* tests.py does) and process_and_save                                     *)

InitFind ==
    /\ pc = "convert"
    /\ SmoothUnused
    /\ \E e \in {0, 8, 200}, w \in {3, 5} :
          cfg = [VectorizerConfig EXCEPT !.SIMPLIFICATION_EPSILON = e,
                                         !.SMOOTHING_WINDOW = w]
    /\ skeleton \in {Scene(k) : k \in [1..MaxShapes -> ShapeKinds]}
                       \cup {TestVectorOutputSkeleton}
    /\ paths = <<>>
    /\ sources = <<>>
    /\ document = NoDocument
    /\ returned = 0
    /\ pruned = NoRaster
    /\ AppUnused

FindPaths ==
    /\ pc = "convert"
    /\ \E found \in {FoundEntries(skeleton, cfg)} :
           /\ paths' = EntryPaths(found)
           /\ sources' = EntrySources(found)
    /\ pc' = "found"
    /\ UNCHANGED <<pts, kernel_size, smoothed, cfg, skeleton, document, returned,
                   pruned, dir, fate, files, results, written, table>>

ProcessAndSave ==
    /\ pc = "convert"
    /\ \E r \in {process_and_save(skeleton, cfg)} :
           /\ paths' = r.paths
           /\ document' = r.document
           /\ returned' = r.returned
    /\ pc' = "saved"
    /\ UNCHANGED <<pts, kernel_size, smoothed, cfg, skeleton, sources, pruned, dir,
                   fate, files, results, written, table>>

NextFind == FindPaths \/ ProcessAndSave

SpecFind == InitFind /\ [][NextFind]_vars

-----------------------------------------------------------------------------
(* Specification of _prune_skeleton *)

InitPrune ==
    /\ pc = "prune"
    /\ SmoothUnused
    /\ \E pl \in 0..MaxPrune, sf \in 1..MaxScale :
          cfg = [VectorizerConfig EXCEPT !.PRUNE_LENGTH = pl, !.SCALE_FACTOR = sf]
    /\ skeleton \in {PruningSkeleton(len, spur) : len \in {28, 30}, spur \in 0..5}
    /\ paths = <<>>
    /\ sources = <<>>
    /\ document = NoDocument
    /\ returned = 0
    /\ pruned = NoRaster
    /\ AppUnused

PruneSkeleton ==
    /\ pc = "prune"
    /\ pruned' = _prune_skeleton(skeleton, cfg)
    /\ pc' = "pruned"
    /\ UNCHANGED <<pts, kernel_size, smoothed, cfg, skeleton, paths, sources,
                   document,
                   returned, dir, fate, files, results, written, table>>

NextPrune == PruneSkeleton

SpecPrune == InitPrune /\ [][NextPrune]_vars

-----------------------------------------------------------------------------
(* Specification of ConsoleApp: __init__, then run *)

\* The settings config.py may hold: the defaults, and one field changed.
AppConfigs ==
    LET edited == {VectorizerConfig,
                   [VectorizerConfig EXCEPT !.SCALE_FACTOR = 0],
                   [VectorizerConfig EXCEPT !.PRUNE_LENGTH = -1],
                   [VectorizerConfig EXCEPT !.SIMPLIFICATION_EPSILON = -8]}
    IN  edited \cup {c @@ [BILATERAL_SIGMA |-> 75] : c \in edited}

Fates == {"load", "preprocess", "skeletonize", "save", "ok"}

InitRun ==
    /\ pc = "new"
    /\ SmoothUnused
    /\ ConverterUnused
    /\ cfg \in AppConfigs
    /\ dir \in SUBSET (1..MaxFiles)
    /\ fate \in [dir -> Fates]
    /\ files = <<>>
    /\ results = <<>>
    /\ written = <<>>
    /\ table = <<>>

\* ConsoleApp.__init__: the configuration is built and handed to the image
\* processor and to the converter as it is.
Construct ==
    /\ pc = "new"
    /\ pc' = "ready"
    /\ UNCHANGED <<pts, kernel_size, smoothed, cfg, skeleton, paths, sources,
                   document,
                   returned, pruned, dir, fate, files, results, written, table>>

\* run, up to the loop: the files are listed, and run returns when there
\* are none.
ListFiles ==
    /\ pc = "ready"
    /\ files' = Sorted(dir)
    /\ results' = <<>>
    /\ pc' = IF dir = {} THEN "returned" ELSE "loop"
    /\ UNCHANGED <<pts, kernel_size, smoothed, cfg, skeleton, paths, sources,
                   document,
                   returned, pruned, dir, fate, written, table>>

\* Faulty variant: no exception handler, an exception ends run.
ProcessFileUncaught ==
    /\ pc = "loop"
    /\ Len(results) < Len(files)
    /\ \E i \in {files[Len(results) + 1]} :
           IF FailingStep(cfg, i) = "ok"
           THEN /\ \E out \in {TryFile(cfg, i, "ok", FileSkeleton(i))} :
                       /\ results' = Append(results, out.row)
                       /\ written' = out.written @@ written
                /\ pc' = "loop"
           ELSE /\ pc' = "raised"
                /\ UNCHANGED <<results, written>>
    /\ UNCHANGED <<pts, kernel_size, smoothed, cfg, skeleton, paths, sources,
                   document,
                   returned, pruned, dir, fate, files, table>>

\* One pass of the loop: the next file is processed in the try block, an
\* exception is caught, and the row is appended to results.
ProcessFile ==
    /\ pc = "loop"
    /\ Len(results) < Len(files)
    /\ \E i \in {files[Len(results) + 1]} :
           \E out \in {TryFile(cfg, i, FailingStep(cfg, i), FileSkeleton(i))} :
               /\ results' = Append(results, out.row)
               /\ written' = out.written @@ written
    /\ pc' = "loop"
    /\ UNCHANGED <<pts, kernel_size, smoothed, cfg, skeleton, paths, sources,
                   document,
                   returned, pruned, dir, fate, files, table>>

\* self.print_summary(results), after the loop
PrintSummary ==
    /\ pc = "loop"
    /\ Len(results) = Len(files)
    /\ table' = [k \in 1..Len(results) |-> SummaryRow(results[k])]
    /\ pc' = "summarised"
    /\ UNCHANGED <<pts, kernel_size, smoothed, cfg, skeleton, paths, sources,
                   document,
                   returned, pruned, dir, fate, files, results, written>>

NextRun == Construct \/ ListFiles \/ ProcessFile \/ PrintSummary

SpecRun == InitRun /\ [][NextRun]_vars

-----------------------------------------------------------------------------
(* The whole model *)

Init == InitSmooth \/ InitFind \/ InitPrune \/ InitRun

Next == NextSmooth \/ NextFind \/ NextPrune \/ NextRun

Spec == Init /\ [][Next]_vars

-----------------------------------------------------------------------------------------------------------------------------------------------------
(* Claims about _smooth_path (specification SpecSmooth) *)

\* The sum of the coordinates of the w points centred on the 0-based index
\* i0 of the argument pts, and w times the smoothed point at i0.
CentredSum(i0, w) ==
    <<SumX(pts, i0 + 1 - (w \div 2), i0 + 1 + (w \div 2)),
      SumY(pts, i0 + 1 - (w \div 2), i0 + 1 + (w \div 2))>>

TimesSmoothed(i0, w) == <<w * smoothed[i0 + 1][1], w * smoothed[i0 + 1][2]>>

\* The indices the claim calls interior: floor(w/2) <= i0 < len - floor(w/2).
Interior(w) == {i0 \in 0..(Len(pts) - 1) : w \div 2 <= i0 /\ i0 < Len(pts) - (w \div 2)}

\* C1 (as claimed): after smoothing a non-empty path with any window >= 1,
\* the first and the last point of the result are those of the input.
C1_EndpointsPreserved ==
    (pc = "smoothed" /\ Len(pts) >= 1) =>
        /\ smoothed[1] = pts[1]
        /\ smoothed[Len(pts)] = pts[Len(pts)]

\* C10 (as claimed): for an odd window w and a path of at least w points,
\* every interior point of the result is the mean of the w points centred on
\* it; a path of fewer than w points is returned unchanged.
C10_CentredMeanAsClaimed ==
    pc = "smoothed" =>
        /\ (kernel_size % 2 = 1 /\ Len(pts) >= kernel_size) =>
               \A i0 \in Interior(kernel_size) :
                   TimesSmoothed(i0, kernel_size) = CentredSum(i0, kernel_size)
        /\ Len(pts) < kernel_size => smoothed = pts

\* C10 (amended): for an odd window w and a path of at least w and at least
\* 2w - 2 points, every interior point of the result is the mean of the w
\* points centred on it; a path of fewer than w points is returned unchanged.
C10_CentredMean ==
    pc = "smoothed" =>
        /\ (/\ kernel_size % 2 = 1
            /\ Len(pts) >= kernel_size
            /\ Len(pts) >= 2 * kernel_size - 2) =>
               \A i0 \in Interior(kernel_size) :
                   TimesSmoothed(i0, kernel_size) = CentredSum(i0, kernel_size)
        /\ Len(pts) < kernel_size => smoothed = pts

\* C10 witness: a path of 8 points smoothed with window 5, an interior
\* point of which has moved.
C10_Witness ==
    /\ pc = "smoothed"
    /\ kernel_size = 5
    /\ Len(pts) = 8
    /\ smoothed[4] # pts[4]

-----------------------------------------------------------------------------
(* Claims about _find_paths and process_and_save (specification SpecFind) *)

\* What the loop body makes of the contour cnt with the window w: the
\* simplified contour, smoothed.
PathOf(cnt, w) ==
    _smooth_path(AsFloat32(approxPolyDP(cnt, Epsilon2(cfg, arcLength(cnt)))), w)

IsStraightStroke(fg) ==
    /\ Cardinality(fg) >= 2
    /\ \E p \in fg, d \in 0..3 :
          fg = {<<p[1] + k * Dir(d)[1], p[2] + k * Dir(d)[2]>> :
                    k \in 0..(Cardinality(fg) - 1)}

\* C7 (as claimed): for a raster whose only foreground is one straight thin
\* stroke, _find_paths returns exactly one path, a sequence of (x, y) pairs.
C7_SingleStrokeTraced ==
    (pc = "found" /\ IsStraightStroke(skeleton.fg)) =>
        /\ Len(paths) = 1
        /\ \A i \in 1..Len(paths) : \A j \in 1..Len(paths[i]) : Len(paths[i][j]) = 2

\* C8: the integer process_and_save returns is the number of path elements
\* of the document, each of them the path data of the path of its rank; for
\* a raster without foreground it is 0.
C8_CountEqualsEmitted ==
    pc = "saved" =>
        /\ returned = Len(document.elements)
        /\ returned = Len(paths)
        /\ \A i \in 1..Len(paths) : document.elements[i] = PathData(paths[i])
        /\ skeleton.fg = {} => returned = 0

\* C8 witness: a document of two path elements was written.
C8_Witness ==
    /\ pc = "saved"
    /\ returned = 2
    /\ Len(document.elements) = 2

\* C9 (as claimed): every returned path is its simplified contour smoothed
\* with the configured SMOOTHING_WINDOW.
C9_ConfiguredWindowUsed ==
    pc = "found" =>
        LET contours == findContours(skeleton)
        IN  \A i \in 1..Len(paths) :
                paths[i] = PathOf(contours[sources[i]], cfg.SMOOTHING_WINDOW)

-----------------------------------------------------------------------------
(* Claims about _prune_skeleton (specification SpecPrune) *)

\* The case of the claim: the segment of length 30 with the spur of length 5
\* at its midpoint (the raster of test_pruning), pruned with PRUNE_LENGTH >= 5.
PruningCase ==
    /\ pc = "pruned"
    /\ skeleton = PruningSkeleton(30, 5)
    /\ cfg.PRUNE_LENGTH >= 5

\* C6 (as claimed): the spur pixels are cleared and the long segment keeps
\* a nonzero number of foreground pixels.
C6_SpurClearedAsClaimed ==
    PruningCase =>
        /\ \A y \in 20..24 : <<25, y>> \notin pruned.fg
        /\ \E x \in 10..40 : <<x, 25>> \in pruned.fg

\* C6 (amended): the spur pixels are cleared except the one adjacent to the
\* segment, which stays, and the long segment keeps a nonzero number of
\* foreground pixels.
C6_SpurTrimmed ==
    PruningCase =>
        /\ \A y \in 20..23 : <<25, y>> \notin pruned.fg
        /\ <<25, 24>> \in pruned.fg
        /\ \E x \in 10..40 : <<x, 25>> \in pruned.fg

\* C6 witness: the case of the claim with exactly 5 iterations, the segment
\* shortened by 5 pixels at each end.
C6_Witness ==
    /\ PruningCase
    /\ cfg.PRUNE_LENGTH * cfg.SCALE_FACTOR = 5
    /\ <<14, 25>> \notin pruned.fg
    /\ <<15, 25>> \in pruned.fg

-----------------------------------------------------------------------------
(* Claims about ConsoleApp (specification SpecRun) *)

\* C2: whatever files raise, run is never ended by an exception, the rows of
\* results are those of the files in order, the row of a file that raises
\* has an ERROR status and a path count of 0, the row of any other file has
\* status OK, and at the summary there is one row per file.
C2_PerImageIsolation ==
    /\ pc # "raised"
    /\ Len(results) <= Len(files)
    /\ \A k \in 1..Len(results) :
          /\ results[k][1] = FileName(files[k])
          /\ IF fate[files[k]] = "ok" /\ HasPreprocessSettings(cfg)
             THEN results[k][4] = "OK"
             ELSE SubSeq(results[k][4], 1, 6) = "ERROR:" /\ results[k][3] = "0"
    /\ pc = "summarised" => Len(results) = Len(files) /\ Len(table) = Len(files)

\* C2 witness: the summary was reached after a file that raised was followed
\* by a file that was processed.
C2_Witness ==
    /\ pc = "summarised"
    /\ \E j, k \in 1..Len(results) :
          /\ j < k
          /\ results[j][4] # "OK"
          /\ results[k][4] = "OK"

\* A configuration the claim calls invalid.
InvalidConfig(c) ==
    c.SCALE_FACTOR <= 0 \/ c.PRUNE_LENGTH < 0 \/ c.SIMPLIFICATION_EPSILON < 0

====
